---- MODULE Spec2Model ----
(***************************************************************************)
(* A model of the pypm dependency resolver: Version, Package,              *)
(* PackageGraph (src/pypm/package.py) and Solver (src/pypm/solver.py).     *)
(*                                                                         *)
(* Python strings are sequences of one-character strings, so that the      *)
(* parsing done by Version.__init__ and Package.satisfies_constraint       *)
(* (split, strip, startswith, int) is modelled by what it does.            *)
(***************************************************************************)
EXTENDS Integers, Sequences, FiniteSets, TLC

(***************************************************************************)
(* Strings                                                                 *)
(***************************************************************************)
Digits == <<"0", "1", "2", "3", "4", "5", "6", "7", "8", "9">>

IsDigit(c) == \E i \in DOMAIN Digits : Digits[i] = c

DigitVal(c) == (CHOOSE i \in DOMAIN Digits : Digits[i] = c) - 1

IsSpace(c) == c = " "

Drop(s, n) == IF n >= Len(s) THEN <<>> ELSE SubSeq(s, n + 1, Len(s))

StartsWith(s, p) == Len(s) >= Len(p) /\ SubSeq(s, 1, Len(p)) = p

RECURSIVE LStrip(_)
LStrip(s) == IF s # <<>> /\ IsSpace(Head(s)) THEN LStrip(Tail(s)) ELSE s

RECURSIVE RStrip(_)
RStrip(s) ==
    IF s # <<>> /\ IsSpace(s[Len(s)]) THEN RStrip(SubSeq(s, 1, Len(s) - 1)) ELSE s

Strip(s) == RStrip(LStrip(s))

\* str.split('.'): the pieces between the dots, empty pieces kept.
RECURSIVE SplitDots(_, _)
SplitDots(s, cur) ==
    IF s = <<>> THEN <<cur>>
    ELSE IF Head(s) = "." THEN <<cur>> \o SplitDots(Tail(s), <<>>)
    ELSE SplitDots(Tail(s), Append(cur, Head(s)))

\* '.'.join(pieces)
RECURSIVE JoinDots(_)
JoinDots(ps) ==
    IF ps = <<>> THEN <<>>
    ELSE IF Len(ps) = 1 THEN ps[1]
    ELSE ps[1] \o <<".">> \o JoinDots(Tail(ps))

\* int(part) succeeds on an optionally space-padded, non-empty run of digits.
IntParses(part) ==
    LET t == Strip(part) IN t # <<>> /\ \A i \in DOMAIN t : IsDigit(t[i])

RECURSIVE DigitsVal(_, _)
DigitsVal(t, acc) ==
    IF t = <<>> THEN acc ELSE DigitsVal(Tail(t), 10 * acc + DigitVal(Head(t)))

IntOf(part) == DigitsVal(Strip(part), 0)

\* str(n) for a natural number
RECURSIVE StrOfNat(_)
StrOfNat(n) ==
    IF n < 10 THEN <<Digits[n + 1]>> ELSE StrOfNat(n \div 10) \o <<Digits[(n % 10) + 1]>>

(***************************************************************************)
(* Version: parts is a list whose items are ints, or strs where int()      *)
(* raised ValueError.  An item is [isInt, n, s]; n = 0 on a str item and   *)
(* s = <<>> on an int item, so record equality is Python's ==.             *)
(***************************************************************************)
IntPart(n) == [isInt |-> TRUE, n |-> n, s |-> <<>>]

StrPart(s) == [isInt |-> FALSE, n |-> 0, s |-> s]

VersionPart(piece) == IF IntParses(piece) THEN IntPart(IntOf(piece)) ELSE StrPart(piece)

Version(version_str) ==
    LET pieces == SplitDots(version_str, <<>>)
    IN  [i \in DOMAIN pieces |-> VersionPart(pieces[i])]

PartStr(p) == IF p.isInt THEN StrOfNat(p.n) ELSE p.s

VersionStr(parts) == JoinDots([i \in DOMAIN parts |-> PartStr(parts[i])])

VersionEq(a, b) == a = b

\* The mutant of < that reads the first items only
VersionLt_First(a, b) == a[1].n < b[1].n

\* Python's list < list: the first differing items decide; a proper prefix
\* is smaller.  The items compared are ints (every version and constraint
\* literal the specifications use is numeric).
RECURSIVE PartsLt(_, _)
PartsLt(a, b) ==
    IF b = <<>> THEN FALSE
    ELSE IF a = <<>> THEN TRUE
    ELSE IF Head(a) = Head(b) THEN PartsLt(Tail(a), Tail(b))
    ELSE Head(a).n < Head(b).n

VersionLt(a, b) == PartsLt(a, b)

VersionLe(a, b) == a = b \/ PartsLt(a, b)

(***************************************************************************)
(* Package.satisfies_constraint                                            *)
(***************************************************************************)
\* The mutant of the caret upper bound that increments the first item
BumpFirstNonZero_First(parts) ==
    <<IntPart(parts[1].n + 1)>> \o [i \in 1..(Len(parts) - 1) |-> IntPart(0)]

\* The caret upper bound: the first item that is not 0 is incremented and
\* the items after it are zeroed; an all-zero base is left as it is.
RECURSIVE BumpFirstNonZero(_)
BumpFirstNonZero(parts) ==
    IF parts = <<>> THEN <<>>
    ELSE IF Head(parts) # IntPart(0)
         THEN <<IntPart(Head(parts).n + 1)>>
              \o [i \in 1..(Len(parts) - 1) |-> IntPart(0)]
         ELSE <<Head(parts)>> \o BumpFirstNonZero(Tail(parts))

CaretSatisfied(version, literal) ==
    LET base_version == Version(literal)
        upper_version == Version(VersionStr(BumpFirstNonZero(base_version)))
    IN  IF VersionLt(version, base_version) THEN FALSE
        ELSE VersionLt(version, upper_version)

\* pkg.satisfies_constraint(constraint); a >= b and a > b run the reflected
\* b <= a and b < a, Version defining only __lt__, __le__ and __eq__.
satisfies_constraint(pkg, constraint) ==
    IF constraint = <<"*">> \/ constraint = <<>> THEN TRUE
    ELSE IF StartsWith(constraint, <<"=", "=">>)
         THEN VersionStr(pkg.version) = Strip(Drop(constraint, 2))
    ELSE IF StartsWith(constraint, <<">", "=">>)
         THEN VersionLe(Version(Strip(Drop(constraint, 2))), pkg.version)
    ELSE IF StartsWith(constraint, <<"<", "=">>)
         THEN VersionLe(pkg.version, Version(Strip(Drop(constraint, 2))))
    ELSE IF StartsWith(constraint, <<">">>)
         THEN VersionLt(Version(Strip(Drop(constraint, 1))), pkg.version)
    ELSE IF StartsWith(constraint, <<"<">>)
         THEN VersionLt(pkg.version, Version(Strip(Drop(constraint, 1))))
    ELSE IF StartsWith(constraint, <<"^">>)
         THEN CaretSatisfied(pkg.version, Strip(Drop(constraint, 1)))
    ELSE VersionStr(pkg.version) = constraint

(***************************************************************************)
(* Package: dependencies is a dict, here the list of its (name, constraint)*)
(* items in insertion order.  Equality and hash are on (name, version).    *)
(***************************************************************************)
Package(name, version_str, dependencies) ==
    [name |-> name, version |-> Version(version_str), dependencies |-> dependencies,
     description |-> << >>]

\* Package(name, Version(version_str), dependencies, description)
PackageWith(name, version_str, dependencies, description) ==
    [Package(name, version_str, dependencies) EXCEPT !.description = description]

PackageEq(p, q) == p.name = q.name /\ VersionEq(p.version, q.version)

\* The dict key of a package: what __hash__ and __eq__ read of it.
PkgKey(p) == <<p.name, p.version>>

(***************************************************************************)
(* PackageGraph: packages maps a name to the list of its records.          *)
(***************************************************************************)
\* self.packages.get(name, [])
RecordsOf(packages, name) == IF name \in DOMAIN packages THEN packages[name] ELSE <<>>

\* The mutant of the filter that keeps every record
Satisfying_All(records, constraint) == records

\* [pkg for pkg in records if pkg.satisfies_constraint(constraint)]
RECURSIVE Satisfying(_, _)
Satisfying(records, constraint) ==
    IF records = <<>> THEN <<>>
    ELSE (IF satisfies_constraint(Head(records), constraint) THEN <<Head(records)>> ELSE <<>>)
         \o Satisfying(Tail(records), constraint)

\* The mutant of max() that returns the first candidate
MaxByVersion_First(candidates, best) == best

\* max(candidates, key=lambda p: p.version): the first of the greatest.
RECURSIVE MaxByVersion(_, _)
MaxByVersion(candidates, best) ==
    IF candidates = <<>> THEN best
    ELSE MaxByVersion(Tail(candidates),
                      IF VersionLt(best.version, Head(candidates).version)
                      THEN Head(candidates) ELSE best)

None == [name |-> "None", version |-> << >>, dependencies |-> << >>, description |-> << >>]

get_package(packages, name, version_constraint) ==
    IF name \notin DOMAIN packages THEN None
    ELSE LET candidates == Satisfying(packages[name], version_constraint)
         IN  IF candidates = <<>> THEN None
             ELSE MaxByVersion(Tail(candidates), Head(candidates))

\* PackageGraph.add_package
add_package(packages, package) ==
    IF package.name \notin DOMAIN packages
    THEN [n \in DOMAIN packages \cup {package.name} |->
            IF n = package.name THEN <<package>> ELSE packages[n]]
    ELSE [packages EXCEPT ![package.name] = Append(@, package)]

(***************************************************************************)
(* The graphs and the requests the resolver is run on.                     *)
(***************************************************************************)
v080 == <<"0", ".", "8", ".", "0">>
v090 == <<"0", ".", "9", ".", "0">>
v100 == <<"1", ".", "0", ".", "0">>
v200 == <<"2", ".", "0", ".", "0">>
Star == <<"*">>
GE(v) == <<">", "=">> \o v
LT(v) == <<"<">> \o v
EQ(v) == <<"=", "=">> \o v

\* A, B, C and D 1.0.0 are the graph of TestSolver.setUp.  B 2.0.0 and
\* C 2.0.0 add second versions; D 0.9.0 and D 0.8.0 depend on each other,
\* and D 0.8.0 is satisfied by itself.
PackagePool ==
    << Package("A", v100, << <<"B", GE(v100)>>, <<"C", GE(v100)>> >>),
       Package("B", v100, << <<"D", GE(v100)>> >>),
       Package("B", v200, << >>),
       Package("C", v100, << <<"D", GE(v100)>> >>),
       Package("C", v200, << <<"B", Star>> >>),
       Package("D", v100, << >>),
       Package("D", v090, << <<"D", EQ(v080)>> >>),
       Package("D", v080, << <<"D", LT(v100)>> >>) >>

\* The graph after add_package of the pool's records at the indices in S,
\* in the pool's order.
RECURSIVE GraphOf(_, _)
GraphOf(S, i) ==
    IF i = 0 THEN << >>
    ELSE IF i \in S THEN add_package(GraphOf(S, i - 1), PackagePool[i])
    ELSE GraphOf(S, i - 1)

Graphs == { GraphOf(S, Len(PackagePool)) : S \in SUBSET DOMAIN PackagePool }

RA == <<"A", v100>>
RC == <<"C", GE(v100)>>
RD == <<"D", LT(v100)>>
RC1 == <<"C", EQ(v100)>>

\* The request lists: empty, one entry, two entries; the last asks for two
\* versions of one name.
Requests == { << >>, <<RA>>, <<RC>>, <<RD>>, <<RA, RC>>, <<RC, RA>>, <<RC, RC1>> }

\* The calls of solve() made on one Solver
MaxSolves == 2

\* The depth of nested _add_package_constraints calls the interpreter's
\* recursion limit allows
RecursionLimit == 6

(***************************************************************************)
(* State.  A thread is the caller of solve() (Main) or, in parallel_solve, *)
(* the worker running the i-th request (i).                                *)
(***************************************************************************)
VARIABLES
    packages,      \* self.graph.packages
    pkg_to_var,    \* Solver._pkg_to_var, keyed by (name, version)
    var_to_pkg,    \* Solver._var_to_pkg
    next_var,      \* Solver._next_var
    cnf,           \* Solver._cnf.clauses
    oracle,        \* Solver._solver: [alive, clauses]
    pc,            \* per thread, where its solve() is: idle, oracle, extract, except
    request,       \* per thread, requested_pkgs of its solve()
    raised,        \* per thread, the exception its solve() caught
    model,         \* per thread, the variables the oracle's model sets true
    history,       \* the solve() calls Main finished: [request, result]
    futures,       \* parallel_solve: per request, its future: [state, result]
    results,       \* parallel_solve: the list it builds and returns
    repo_packages, \* PackageRepository.packages
    _graph,        \* PackageGraph._graph: the edge index, or None
    returned,      \* the last call made on the graph or on a Version: [op, args, value]
    file,          \* the JSON file save_to_file writes: its records, or no file
    new_repo,      \* PackageRepository.packages of the repository the file is loaded into
    processed,     \* per thread, the packages _add_package_constraints was called on
    local          \* per thread inside _get_var, its pkg and var

vars == <<packages, pkg_to_var, var_to_pkg, next_var, cnf, oracle, pc, request,
          raised, model, history, futures, results, repo_packages, _graph, returned,
          file, new_repo, processed, local>>

Main == 0

(***************************************************************************)
(* Solver: the encoding                                                    *)
(***************************************************************************)
\* The Solver fields the closure walk writes, and the exception it raised.
Encoding(p2v, v2p, nv, clauses, exc) ==
    [pkg_to_var |-> p2v, var_to_pkg |-> v2p, next_var |-> nv, cnf |-> clauses,
     raised |-> exc, processed |-> << >>]

\* Solver._get_var: the Solver after the call ...
GetVarState(st, pkg) ==
    IF PkgKey(pkg) \in DOMAIN st.pkg_to_var THEN st
    ELSE [st EXCEPT
            !.pkg_to_var = [k \in DOMAIN st.pkg_to_var \cup {PkgKey(pkg)} |->
                              IF k = PkgKey(pkg) THEN st.next_var ELSE st.pkg_to_var[k]],
            !.var_to_pkg = [v \in DOMAIN st.var_to_pkg \cup {st.next_var} |->
                              IF v = st.next_var THEN pkg ELSE st.var_to_pkg[v]],
            !.next_var = st.next_var + 1]

\* ... and the variable it returns.
_get_var(st, pkg) == GetVarState(st, pkg).pkg_to_var[PkgKey(pkg)]

\* Solver._add_clause
_add_clause(st, clause) == [st EXCEPT !.cnf = Append(st.cnf, clause)]

\* The loop of lines 62-65: one clause per other record of pkg's name.
RECURSIVE ExclusionLoop(_, _, _)
ExclusionLoop(st, pkg, others) ==
    IF others = <<>> THEN st
    ELSE IF ~PackageEq(Head(others), pkg)
         THEN LET st1 == GetVarState(st, Head(others))
              IN  ExclusionLoop(
                      _add_clause(st1, <<-_get_var(st, pkg), -_get_var(st, Head(others))>>),
                      pkg, Tail(others))
         ELSE ExclusionLoop(st, pkg, Tail(others))

\* The generator of line 83: the candidates' variables, created in order.
RECURSIVE CandidateVars(_, _)
CandidateVars(st, candidates) ==
    IF candidates = <<>> THEN [st |-> st, lits |-> <<>>]
    ELSE LET st1 == GetVarState(st, Head(candidates))
             rest == CandidateVars(st1, Tail(candidates))
         IN  [st |-> rest.st, lits |-> <<_get_var(st, Head(candidates))>> \o rest.lits]

\* Line 75, `if not candidates`, with the mutant that never raises
NoCandidates_Never(candidates) == FALSE

NoCandidates(candidates) == candidates = <<>>

RECURSIVE _add_package_constraints(_, _, _)
RECURSIVE DependencyLoop(_, _, _, _)
RECURSIVE CandidateLoop(_, _, _)

\* The loop of lines 87-88; an exception ends it.
CandidateLoop(st, candidates, depth) ==
    IF st.raised # "none" \/ candidates = <<>> THEN st
    ELSE CandidateLoop(_add_package_constraints(st, Head(candidates), depth + 1),
                       Tail(candidates), depth)

\* The loop of lines 68-88 over pkg.dependencies.items(); an exception ends it.
DependencyLoop(st, pkg, deps, depth) ==
    IF st.raised # "none" \/ deps = <<>> THEN st
    ELSE LET dep_name == Head(deps)[1]
             constraint == Head(deps)[2]
             candidates == Satisfying(RecordsOf(packages, dep_name), constraint)
         IN  IF NoCandidates(candidates)
             THEN [st EXCEPT !.raised = "UnsatisfiableDependency"]
             ELSE LET cv == CandidateVars(st, candidates)
                      st1 == _add_clause(cv.st, <<-_get_var(st, pkg)>> \o cv.lits)
                  IN  DependencyLoop(CandidateLoop(st1, candidates, depth),
                                     pkg, Tail(deps), depth)

\* Solver._add_package_constraints, called at nesting depth `depth`.  The
\* interpreter raises RecursionError on the call past its limit.
_add_package_constraints(st, pkg, depth) ==
    IF depth > RecursionLimit THEN [st EXCEPT !.raised = "RecursionError"]
    ELSE LET st1 == GetVarState([st EXCEPT !.processed = Append(@, PkgKey(pkg))], pkg)
             st2 == ExclusionLoop(st1, pkg, RecordsOf(packages, pkg.name))
         IN  DependencyLoop(st2, pkg, pkg.dependencies, depth)

\* Line 142, `if not pkg`, with the mutant that never raises
NotFound_Never(pkg) == FALSE

NotFound(pkg) == pkg = None

\* The loop of lines 140-147 over requested_pkgs; an exception ends it.
RECURSIVE RequestLoop(_, _)
RequestLoop(st, requested_pkgs) ==
    IF st.raised # "none" \/ requested_pkgs = <<>> THEN st
    ELSE LET pkg == get_package(packages, Head(requested_pkgs)[1], Head(requested_pkgs)[2])
         IN  IF NotFound(pkg)
             THEN [st EXCEPT !.raised = "PackageNotFound"]
             ELSE LET st1 == _add_clause(GetVarState(st, pkg), <<_get_var(st, pkg)>>)
                  IN  RequestLoop(_add_package_constraints(st1, pkg, 1),
                                  Tail(requested_pkgs))

(***************************************************************************)
(* The satisfiability oracle (PySAT's Solver, behind add_clause, solve,    *)
(* get_model and delete).  A model is the set of variables it sets true;   *)
(* the oracle may return any model of its clauses.                         *)
(***************************************************************************)
Abs(l) == IF l < 0 THEN -l ELSE l

ClauseVars(clauses) ==
    UNION { { Abs(clauses[i][j]) : j \in DOMAIN clauses[i] } : i \in DOMAIN clauses }

LitTrue(l, m) == IF l > 0 THEN l \in m ELSE (-l) \notin m

ClauseTrue(clause, m) == \E j \in DOMAIN clause : LitTrue(clause[j], m)

Models(clauses) ==
    { m \in SUBSET ClauseVars(clauses) : \A i \in DOMAIN clauses : ClauseTrue(clauses[i], m) }

\* The loop of lines 153-154; a released oracle takes no clause.
OracleAddClauses(o, clauses) ==
    IF o.alive THEN [o EXCEPT !.clauses = o.clauses \o clauses] ELSE o

\* self._solver.delete()
OracleDelete(o) == [alive |-> FALSE, clauses |-> << >>]

(***************************************************************************)
(* Solver: extraction and pruning                                          *)
(***************************************************************************)
\* Solver._extract_solution: the model's true variables that have a package.
_extract_solution(m, v2p) == { v2p[v] : v \in m \cap DOMAIN v2p }

\* The dependents the pruning computes: for each selected package, the
\* selected packages one of whose dependencies it satisfies.
Dependents(pkg_set) ==
    [dep \in pkg_set |->
        { pkg \in pkg_set :
            \E i \in DOMAIN pkg.dependencies :
                /\ dep.name = pkg.dependencies[i][1]
                /\ satisfies_constraint(dep, pkg.dependencies[i][2]) }]

Leaves(pkg_set) == { pkg \in pkg_set : Dependents(pkg_set)[pkg] = {} }

\* Solver._prune_solution: the leaves are computed and nothing is removed.
_prune_solution(solution) == solution

(***************************************************************************)
(* Solver.solve, in steps                                                  *)
(***************************************************************************)
NoModel == {}

Ok(pkgs) == [kind |-> "ok", pkgs |-> pkgs, reason |-> "none"]

ResolutionError(reason) == [kind |-> "ResolutionError", pkgs |-> {}, reason |-> reason]

\* PackageGraph.__init__'s _graph, and no call made yet
NoGraph == [built |-> FALSE, nodes |-> << >>, edges |-> {}]

NoCall == [op |-> "none", args |-> << >>, value |-> << >>]

\* No file written yet
NoFile == [exists |-> FALSE, records |-> << >>]

\* PackageRepository.__init__: no package, and an empty PackageGraph
FreshRepo == [packages |-> << >>, graph |-> << >>]

\* PackageRepository.__init__ and the PackageGraph.__init__ it calls, but
\* for the records (the solver is given a graph with records).
GraphInit ==
    /\ repo_packages = << >>
    /\ _graph = NoGraph
    /\ returned = NoCall

\* Solver.__init__: the fields of a new Solver
SolverInit ==
    /\ pkg_to_var = << >>
    /\ var_to_pkg = << >>
    /\ next_var = 1
    /\ cnf = << >>
    /\ oracle = [alive |-> TRUE, clauses |-> << >>]

\* A Solver on a graph, and its caller
Init ==
    /\ packages \in Graphs
    /\ SolverInit
    /\ pc = [t \in {Main} |-> "idle"]
    /\ request = [t \in {Main} |-> << >>]
    /\ raised = [t \in {Main} |-> "none"]
    /\ model = [t \in {Main} |-> NoModel]
    /\ history = << >>
    /\ futures = << >>
    /\ results = << >>
    /\ processed = [t \in {Main} |-> << >>]
    /\ local = << >>
    /\ file = NoFile
    /\ new_repo = FreshRepo
    /\ GraphInit

\* What a finished solve() leaves: to Main its result, to a worker the
\* outcome of its future.
Finish(t, result) ==
    /\ history' = IF t = Main
                  THEN Append(history, [request |-> request[t], result |-> result])
                  ELSE history
    /\ futures' = IF t = Main
                  THEN futures
                  ELSE [futures EXCEPT ![t] = [state |-> "done", result |-> result]]

\* The mutant of the dictionary read that stores the default it returns
DictGet_SetDefault(pkgs, name) ==
    IF name \in DOMAIN pkgs THEN pkgs
    ELSE [n \in DOMAIN pkgs \cup {name} |-> IF n = name THEN << >> ELSE pkgs[n]]

\* graph.packages after `name not in self.graph.packages` (package.py line
\* 105) or `self.graph.packages.get(name, [])` (lines 62 and 71): neither
\* stores anything
DictGet(pkgs, name) == pkgs

\* The names a walk looks up: those of the request, of the packages it
\* processed and of their dependencies
LookedUp(requested_pkgs, walked) ==
    { requested_pkgs[i][1] : i \in DOMAIN requested_pkgs }
        \cup { walked[i][1] : i \in DOMAIN walked }
        \cup UNION { { packages[n][j].dependencies[k][1] : k \in DOMAIN packages[n][j].dependencies } :
                        <<n, j>> \in { <<n, j>> \in UNION { {n} \X DOMAIN packages[n] : n \in DOMAIN packages } :
                                        \E i \in DOMAIN walked : PkgKey(packages[n][j]) = walked[i] } }

\* graph.packages after the lookups of a walk
RECURSIVE GraphAfterLookups(_, _)
GraphAfterLookups(pkgs, names) ==
    IF names = {} THEN pkgs
    ELSE LET name == CHOOSE name \in names : TRUE
         IN  GraphAfterLookups(DictGet(pkgs, name), names \ {name})

\* solve(requested_pkgs) by thread t, lines 138-147: the clauses of the request.
SolveEncode(t, requested_pkgs) ==
    /\ pc[t] = "idle"
    /\ \E st \in { RequestLoop(Encoding(pkg_to_var, var_to_pkg, next_var, cnf, "none"),
                                requested_pkgs) } :
            /\ pkg_to_var' = st.pkg_to_var
            /\ var_to_pkg' = st.var_to_pkg
            /\ next_var' = st.next_var
            /\ cnf' = st.cnf
            /\ raised' = [raised EXCEPT ![t] = st.raised]
            /\ processed' = [processed EXCEPT ![t] = st.processed]
            /\ packages' = GraphAfterLookups(packages, LookedUp(requested_pkgs, st.processed))
            /\ pc' = [pc EXCEPT ![t] = IF st.raised = "none" THEN "oracle" ELSE "except"]
    /\ request' = [request EXCEPT ![t] = requested_pkgs]
    /\ model' = [model EXCEPT ![t] = NoModel]
    /\ UNCHANGED <<repo_packages, _graph, returned, file, new_repo, local, oracle, history, results>>

\* Lines 153-167: the clauses go to the oracle, which is asked once.  A
\* released oracle answers None, which `not` reads as no solution.
OracleSolve(t) ==
    /\ pc[t] = "oracle"
    /\ \E o \in { OracleAddClauses(oracle, cnf) } :
        /\ oracle' = o
        /\ IF o.alive /\ Models(o.clauses) # {}
           THEN \E m \in Models(o.clauses) :
                    /\ model' = [model EXCEPT ![t] = m]
                    /\ pc' = [pc EXCEPT ![t] = "extract"]
                    /\ raised' = raised
           ELSE /\ model' = model
                /\ pc' = [pc EXCEPT ![t] = "except"]
                /\ raised' = [raised EXCEPT ![t] = "NoSolution"]
    /\ UNCHANGED <<packages, repo_packages, _graph, returned, file, new_repo, local, processed, pkg_to_var, var_to_pkg,
                   next_var, cnf, request, history, futures, results>>

\* Lines 168-175 and 181: the pruned solution is returned, the oracle released.
SolveReturn(t) ==
    /\ pc[t] = "extract"
    /\ Finish(t, Ok(_prune_solution(_extract_solution(model[t], var_to_pkg))))
    /\ oracle' = OracleDelete(oracle)
    /\ pc' = [pc EXCEPT ![t] = "idle"]
    /\ UNCHANGED <<packages, repo_packages, _graph, returned, file, new_repo, local, processed, pkg_to_var, var_to_pkg,
                   next_var, cnf, request, raised, model, results>>

\* Lines 177-181: any exception is raised again as a ResolutionError, the
\* oracle released.
SolveRaise(t) ==
    /\ pc[t] = "except"
    /\ Finish(t, ResolutionError(raised[t]))
    /\ oracle' = OracleDelete(oracle)
    /\ pc' = [pc EXCEPT ![t] = "idle"]
    /\ UNCHANGED <<packages, repo_packages, _graph, returned, file, new_repo, local, processed, pkg_to_var, var_to_pkg,
                   next_var, cnf, request, raised, model, results>>

\* The caller calls solve() on a request list.
CallSolve ==
    /\ Len(history) < MaxSolves
    /\ futures' = futures
    /\ \E requested_pkgs \in Requests : SolveEncode(Main, requested_pkgs)

Next == CallSolve \/ OracleSolve(Main) \/ SolveReturn(Main) \/ SolveRaise(Main)

Spec == Init /\ [][Next]_vars

(***************************************************************************)
(* Solver.parallel_solve.  Every worker runs self.solve(r) on the one      *)
(* Solver; the workers interleave at the steps of solve().                 *)
(***************************************************************************)
\* The graphs parallel_solve is run on: that of TestSolver.setUp, and it
\* with the second versions of B and C.
ParGraphs == { GraphOf({1, 2, 4, 6}, Len(PackagePool)), GraphOf(1..6, Len(PackagePool)) }

\* The requests of a parallel_solve call
MaxParallel == 2

ParRequests ==
    UNION { [1..n -> {<<RA>>, <<RC>>, <<RD>>}] : n \in 1..MaxParallel }

\* Solver.__init__'s default max_workers
max_workers == 4

InitPar ==
    /\ packages \in ParGraphs
    /\ SolverInit
    /\ pc = [t \in {Main} |-> "idle"]
    /\ request = [t \in {Main} |-> << >>]
    /\ raised = [t \in {Main} |-> "none"]
    /\ model = [t \in {Main} |-> NoModel]
    /\ history = << >>
    /\ futures = << >>
    /\ results = << >>
    /\ processed = [t \in {Main} |-> << >>]
    /\ local = << >>
    /\ file = NoFile
    /\ new_repo = FreshRepo
    /\ GraphInit

\* Lines 193-197: one future per request, in the order of the list.
ParallelSolve ==
    /\ pc[Main] = "idle"
    /\ \E requests \in ParRequests :
        /\ futures' = [i \in DOMAIN requests |-> [state |-> "pending", result |-> Ok({})]]
        /\ request' = [t \in {Main} \cup DOMAIN requests |->
                          IF t = Main THEN request[Main] ELSE requests[t]]
        /\ pc' = [t \in {Main} \cup DOMAIN requests |->
                          IF t = Main THEN "as_completed" ELSE "idle"]
        /\ raised' = [t \in {Main} \cup DOMAIN requests |-> "none"]
        /\ model' = [t \in {Main} \cup DOMAIN requests |-> NoModel]
        /\ processed' = [t \in {Main} \cup DOMAIN requests |-> << >>]
    /\ UNCHANGED <<packages, repo_packages, _graph, returned, file, new_repo, local, pkg_to_var, var_to_pkg,
                   next_var, cnf, oracle, history, results>>

Running == { i \in DOMAIN futures : futures[i].state = "running" }

\* A worker of the pool takes the i-th future and enters solve().
WorkerStart(i) ==
    /\ futures[i].state = "pending"
    /\ Cardinality(Running) < max_workers
    /\ futures' = [futures EXCEPT ![i].state = "running"]
    /\ SolveEncode(i, request[i])

\* The outcome of a future as lines 201-205 read it: the set solve()
\* returned, or set() when it raised.
Outcome(future) == IF future.result.kind = "ok" THEN future.result.pkgs ELSE {}

\* Lines 200-205: as_completed yields a finished future not yet yielded,
\* and its outcome is appended.
Collect(i) ==
    /\ pc[Main] = "as_completed"
    /\ futures[i].state = "done"
    /\ futures' = [futures EXCEPT ![i].state = "yielded"]
    /\ results' = Append(results, Outcome(futures[i]))
    /\ UNCHANGED <<packages, repo_packages, _graph, returned, file, new_repo, local, processed, pkg_to_var, var_to_pkg,
                   next_var, cnf, oracle, pc, request, raised, model, history>>

\* Line 207: every future was yielded, the list is returned.
ParallelReturn ==
    /\ pc[Main] = "as_completed"
    /\ \A i \in DOMAIN futures : futures[i].state = "yielded"
    /\ pc' = [pc EXCEPT ![Main] = "returned"]
    /\ UNCHANGED <<packages, repo_packages, _graph, returned, file, new_repo, local, processed, pkg_to_var, var_to_pkg,
                   next_var, cnf, oracle, request, raised, model, history, futures,
                   results>>

NextPar ==
    \/ ParallelSolve
    \/ \E i \in DOMAIN futures : WorkerStart(i)
    \/ \E i \in DOMAIN futures : OracleSolve(i)
    \/ \E i \in DOMAIN futures : SolveReturn(i)
    \/ \E i \in DOMAIN futures : SolveRaise(i)
    \/ \E i \in DOMAIN futures : Collect(i)
    \/ ParallelReturn

SpecPar == InitPar /\ [][NextPar]_vars

(***************************************************************************)
(* PackageGraph and PackageRepository: records are added, the edge index   *)
(* is built and queried.  The index is a networkx DiGraph: its nodes are   *)
(* kept by hash and equality, i.e. by (name, version), the first object    *)
(* added under a key staying; successors() and predecessors() raise        *)
(* NetworkXError on an object that is no node; an empty graph is false.    *)
(***************************************************************************)
\* The records of TestPackageGraph.setUp, but for the second pkg1
GraphPool ==
    << Package("pkg1", v100, << <<"dep1", GE(v100)>> >>),
       Package("dep1", v100, << >>),
       Package("dep1", v200, << >>) >>

GraphPoolSet == { GraphPool[i] : i \in DOMAIN GraphPool }

GT(v) == <<">">> \o v
CARET(v) == <<"^">> \o v

\* The names and constraints get_package is asked: the default "*" among them
GraphNames == { "pkg1", "dep1", "nosuch" }

GraphConstraints == { Star, EQ(v100), GE(v200), GT(v200), CARET(v100) }

\* The records a graph is given
MaxRecords == 3

RecordSet(pkgs) == UNION { { pkgs[n][i] : i \in DOMAIN pkgs[n] } : n \in DOMAIN pkgs }

\* The number of records under a set of names
RECURSIVE CountUnder(_, _)
CountUnder(pkgs, names) ==
    IF names = {} THEN 0
    ELSE LET n == CHOOSE n \in names : TRUE
         IN  Len(pkgs[n]) + CountUnder(pkgs, names \ {n})

RecordCount(pkgs) == CountUnder(pkgs, DOMAIN pkgs)

\* The object a DiGraph keeps under a key: the first one added with it
FirstWithKey(pkgs, key) ==
    LET recs == pkgs[key[1]]
        i == CHOOSE i \in DOMAIN recs :
                /\ PkgKey(recs[i]) = key
                /\ \A j \in 1..(i - 1) : PkgKey(recs[j]) # key
    IN  recs[i]

\* PackageGraph.build_graph: every record a node, and an edge from every
\* record to what get_package returns for each of its dependencies.
build_graph(pkgs) ==
    [built |-> TRUE,
     nodes |-> [key \in { PkgKey(r) : r \in RecordSet(pkgs) } |-> FirstWithKey(pkgs, key)],
     edges |-> UNION { { <<PkgKey(pkg), PkgKey(get_package(pkgs, d[1], d[2]))>> :
                            d \in { d \in { pkg.dependencies[i] : i \in DOMAIN pkg.dependencies } :
                                      get_package(pkgs, d[1], d[2]) # None } } :
                       pkg \in RecordSet(pkgs) }]

NetworkXError == [kind |-> "NetworkXError", pkgs |-> {}, reason |-> "NodeNotInGraph"]

\* set(self._graph.successors(package))
successors(g, package) ==
    IF PkgKey(package) \notin DOMAIN g.nodes THEN NetworkXError
    ELSE Ok({ g.nodes[e[2]] : e \in { e \in g.edges : e[1] = PkgKey(package) } })

\* set(self._graph.predecessors(package))
predecessors(g, package) ==
    IF PkgKey(package) \notin DOMAIN g.nodes THEN NetworkXError
    ELSE Ok({ g.nodes[e[1]] : e \in { e \in g.edges : e[2] = PkgKey(package) } })

\* `if self._graph is None: self.build_graph()`
EnsureGraph(pkgs, g) == IF g.built THEN g ELSE build_graph(pkgs)

\* PackageGraph.get_dependencies, on the index EnsureGraph leaves
get_dependencies(g, package) ==
    IF DOMAIN g.nodes # {} THEN successors(g, package) ELSE Ok({})

\* PackageGraph.get_dependents, on the index EnsureGraph leaves
get_dependents(g, package) ==
    IF DOMAIN g.nodes # {} THEN predecessors(g, package) ELSE Ok({})

Call(op, args, value) == [op |-> op, args |-> args, value |-> value]

SolverIdle ==
    UNCHANGED <<pkg_to_var, var_to_pkg, next_var, cnf, oracle, pc, request, raised, model,
                history, futures, results, processed, local>>

RepoIdle == UNCHANGED <<file, new_repo>>

InitGraph ==
    /\ packages = << >>
    /\ GraphInit
    /\ SolverInit
    /\ pc = [t \in {Main} |-> "idle"]
    /\ request = [t \in {Main} |-> << >>]
    /\ raised = [t \in {Main} |-> "none"]
    /\ model = [t \in {Main} |-> NoModel]
    /\ history = << >>
    /\ futures = << >>
    /\ results = << >>
    /\ processed = [t \in {Main} |-> << >>]
    /\ local = << >>
    /\ file = NoFile
    /\ new_repo = FreshRepo

\* graph.add_package(package)
AddPackage(package) ==
    /\ RecordCount(packages) < MaxRecords
    /\ packages' = add_package(packages, package)
    /\ returned' = Call("add_package", <<package>>, << >>)
    /\ UNCHANGED <<repo_packages, _graph>>
    /\ SolverIdle
    /\ RepoIdle

\* `pkg not in self.packages[pkg.name]`
InList(pkg, records) == \E i \in DOMAIN records : PackageEq(records[i], pkg)

\* repository.add_package(pkg_data), the graph being repository.graph
RepoAddPackage(pkg) ==
    /\ RecordCount(packages) < MaxRecords
    /\ IF ~InList(pkg, RecordsOf(repo_packages, pkg.name))
       THEN /\ repo_packages' = add_package(repo_packages, pkg)
            /\ packages' = add_package(packages, pkg)
       ELSE UNCHANGED <<repo_packages, packages>>
    /\ returned' = Call("repository.add_package", <<pkg>>, << >>)
    /\ UNCHANGED _graph
    /\ SolverIdle
    /\ RepoIdle

\* graph.build_graph()
BuildGraph ==
    /\ _graph' = build_graph(packages)
    /\ returned' = Call("build_graph", << >>, << >>)
    /\ UNCHANGED <<packages, repo_packages>>
    /\ SolverIdle
    /\ RepoIdle

\* graph.get_dependencies(package)
GetDependencies(package) ==
    /\ _graph' = EnsureGraph(packages, _graph)
    /\ returned' = Call("get_dependencies", <<package>>,
                        get_dependencies(EnsureGraph(packages, _graph), package))
    /\ UNCHANGED <<packages, repo_packages>>
    /\ SolverIdle
    /\ RepoIdle

\* graph.get_dependents(package)
GetDependents(package) ==
    /\ _graph' = EnsureGraph(packages, _graph)
    /\ returned' = Call("get_dependents", <<package>>,
                        get_dependents(EnsureGraph(packages, _graph), package))
    /\ UNCHANGED <<packages, repo_packages>>
    /\ SolverIdle
    /\ RepoIdle

\* graph.get_package(name, version_constraint)
GetPackage(name, version_constraint) ==
    /\ returned' = Call("get_package", <<name, version_constraint>>,
                        get_package(packages, name, version_constraint))
    /\ UNCHANGED <<packages, repo_packages, _graph>>
    /\ SolverIdle
    /\ RepoIdle

NextGraph ==
    \/ \E package \in GraphPoolSet : AddPackage(package)
    \/ \E pkg \in GraphPoolSet : RepoAddPackage(pkg)
    \/ BuildGraph
    \/ \E package \in GraphPoolSet : GetDependencies(package)
    \/ \E package \in GraphPoolSet : GetDependents(package)
    \/ \E name \in GraphNames, version_constraint \in GraphConstraints :
            GetPackage(name, version_constraint)

SpecGraph == InitGraph /\ [][NextGraph]_vars

(***************************************************************************)
(* Version and Package.satisfies_constraint, called on version strings     *)
(* with integer components.                                                *)
(***************************************************************************)
\* The greatest component and the greatest number of components of a
\* version literal; of the versions that are compared three at a time
MaxPart == 1
MaxLen == 3
CmpMaxLen == 2

IntSeqs(len, top) == UNION { [1..n -> 0..top] : n \in 1..len }

\* The version string of a sequence of components, as the tests write it
VersionString(ints) == JoinDots([i \in DOMAIN ints |-> StrOfNat(ints[i])])

\* The operators of the constraints that are checked
ConstraintOps == { <<"^">> }

\* The calls to make: satisfies_constraint of a version and a constraint
\* (the version goes one past MaxPart, to reach the caret's upper bound) ...
GivenConstraint(call) ==
    \E v \in IntSeqs(MaxLen, MaxPart + 1), op \in ConstraintOps, V \in IntSeqs(MaxLen, MaxPart) :
        call = Call("given", <<"satisfies_constraint", v, op, V>>, << >>)

\* The leading zeros a component of a version literal is written with
MaxPad == 1

Zeros(n) == [i \in 1..n |-> "0"]

\* The version string whose i-th component has pad[i] leading zeros
PaddedString(ints, pad) ==
    JoinDots([i \in DOMAIN ints |-> Zeros(pad[i]) \o StrOfNat(ints[i])])

\* "==V" and the bare "V"
ExactOps == { <<"=", "=">>, << >> }

\* ... the exact-match constraints of a literal V against a version
\* created from the canonical string, or from V's own string ...
GivenExact(call) ==
    \E v \in IntSeqs(CmpMaxLen, MaxPart), op \in ExactOps, V \in IntSeqs(CmpMaxLen, MaxPart) :
        \E padV \in [DOMAIN V -> 0..MaxPad] :
            \E padv \in { [i \in DOMAIN v |-> 0] } \cup (IF v = V THEN { padV } ELSE {}) :
                call = Call("given", <<"exact_match", v, padv, op, V, padV>>, << >>)

\* ... and the comparisons of three versions
GivenVersions(call) ==
    \E a \in IntSeqs(CmpMaxLen, MaxPart), b \in IntSeqs(CmpMaxLen, MaxPart),
       c \in IntSeqs(CmpMaxLen, MaxPart) :
        call = Call("given", <<"compare", a, b, c>>, << >>)

InitVersion ==
    /\ packages = << >>
    /\ repo_packages = << >>
    /\ _graph = NoGraph
    /\ GivenConstraint(returned) \/ GivenExact(returned) \/ GivenVersions(returned)
    /\ SolverInit
    /\ pc = [t \in {Main} |-> "idle"]
    /\ request = [t \in {Main} |-> << >>]
    /\ raised = [t \in {Main} |-> "none"]
    /\ model = [t \in {Main} |-> NoModel]
    /\ history = << >>
    /\ futures = << >>
    /\ results = << >>
    /\ processed = [t \in {Main} |-> << >>]
    /\ local = << >>
    /\ file = NoFile
    /\ new_repo = FreshRepo

\* Package(name, Version(v), {}).satisfies_constraint(op + V)
SatisfiesConstraint ==
    /\ returned.op = "given"
    /\ returned.args[1] = "satisfies_constraint"
    /\ LET v == returned.args[2]
           op == returned.args[3]
           V == returned.args[4]
           pkg == Package("test-package", VersionString(v), << >>)
       IN  returned' = Call("satisfies_constraint", <<v, op, V>>,
                            satisfies_constraint(pkg, op \o VersionString(V)))
    /\ UNCHANGED <<packages, repo_packages, _graph>>
    /\ SolverIdle
    /\ RepoIdle

\* Package(name, Version(v's string), {}).satisfies_constraint(op + V's string)
SatisfiesExact ==
    /\ returned.op = "given"
    /\ returned.args[1] = "exact_match"
    /\ LET v == returned.args[2]
           padv == returned.args[3]
           op == returned.args[4]
           V == returned.args[5]
           padV == returned.args[6]
           pkg == Package("test-package", PaddedString(v, padv), << >>)
       IN  returned' = Call("exact_match", <<v, padv, op, V, padV>>,
                            satisfies_constraint(pkg, op \o PaddedString(V, padV)))
    /\ UNCHANGED <<packages, repo_packages, _graph>>
    /\ SolverIdle
    /\ RepoIdle

\* Version(a) < Version(b), <= and == for every two of three versions
Comparisons(ver) ==
    [lt |-> [i \in 1..3 |-> [j \in 1..3 |-> VersionLt(ver[i], ver[j])]],
     le |-> [i \in 1..3 |-> [j \in 1..3 |-> VersionLe(ver[i], ver[j])]],
     eq |-> [i \in 1..3 |-> [j \in 1..3 |-> VersionEq(ver[i], ver[j])]]]

Compare ==
    /\ returned.op = "given"
    /\ returned.args[1] = "compare"
    /\ \E ver \in { [i \in 1..3 |-> Version(VersionString(returned.args[i + 1]))] } :
            returned' = Call("compare", SubSeq(returned.args, 2, 4), Comparisons(ver))
    /\ UNCHANGED <<packages, repo_packages, _graph>>
    /\ SolverIdle
    /\ RepoIdle

NextVersion == SatisfiesConstraint \/ SatisfiesExact \/ Compare

SpecVersion == InitVersion /\ [][NextVersion]_vars

(***************************************************************************)
(* PackageRepository: packages are added, the index is saved to a JSON     *)
(* file and loaded into a new repository.  json.dump and json.load keep    *)
(* the strings and the order of a list of objects with string fields.      *)
(***************************************************************************)
\* The pkg_data dicts that are added: that of TestPackageRepository.setUp,
\* a second version written "2.00", the same version written "2.0" with
\* another description, and a package of another name.
RepoPool ==
    { [name |-> "test-pkg", version |-> v100,
       dependencies |-> << <<"dep1", GE(v100)>> >>, description |-> <<"A">>],
      [name |-> "test-pkg", version |-> <<"2", ".", "0", "0">>,
       dependencies |-> << >>, description |-> << >>],
      [name |-> "test-pkg", version |-> <<"2", ".", "0">>,
       dependencies |-> << >>, description |-> <<"B">>],
      [name |-> "dep1", version |-> v100,
       dependencies |-> << >>, description |-> << >>] }

RepoNames == { "test-pkg", "dep1", "nosuch" }

\* Lines 39-44: the Package of a pkg_data dict
PackageOf(pkg_data) ==
    PackageWith(pkg_data.name, pkg_data.version, pkg_data.dependencies, pkg_data.description)

\* The mutant of the saved dict that leaves the dependencies out
SavedData_NoDependencies(pkg) ==
    [name |-> pkg.name, version |-> VersionStr(pkg.version),
     dependencies |-> << >>, description |-> pkg.description]

\* Lines 96-101: the dict save_to_file writes for a package
SavedData(pkg) ==
    [name |-> pkg.name, version |-> VersionStr(pkg.version),
     dependencies |-> pkg.dependencies, description |-> pkg.description]

\* Lines 94-102: the dicts of all packages, name by name (the order of the
\* names is that of the dict; the lists under the names do not depend on it)
RECURSIVE SavedRecords(_, _)
SavedRecords(pkgs, names) ==
    IF names = {} THEN << >>
    ELSE LET n == CHOOSE n \in names : TRUE
         IN  [i \in DOMAIN pkgs[n] |-> SavedData(pkgs[n][i])] \o SavedRecords(pkgs, names \ {n})

\* PackageRepository.add_package on a repository [packages, graph]
RepoAfterAdd(repo, pkg) ==
    IF ~InList(pkg, RecordsOf(repo.packages, pkg.name))
    THEN [packages |-> add_package(repo.packages, pkg), graph |-> add_package(repo.graph, pkg)]
    ELSE repo

\* The loop of lines 73-74 of load_from_file
RECURSIVE LoadLoop(_, _)
LoadLoop(repo, packages_data) ==
    IF packages_data = << >> THEN repo
    ELSE LoadLoop(RepoAfterAdd(repo, PackageOf(Head(packages_data))), Tail(packages_data))

\* PackageRepository.find_packages
find_packages(pkgs, name, constraint) ==
    IF name \notin DOMAIN pkgs THEN << >> ELSE Satisfying(pkgs[name], constraint)

InitRepo ==
    /\ packages = << >>
    /\ GraphInit
    /\ SolverInit
    /\ pc = [t \in {Main} |-> "idle"]
    /\ request = [t \in {Main} |-> << >>]
    /\ raised = [t \in {Main} |-> "none"]
    /\ model = [t \in {Main} |-> NoModel]
    /\ history = << >>
    /\ futures = << >>
    /\ results = << >>
    /\ processed = [t \in {Main} |-> << >>]
    /\ local = << >>
    /\ file = NoFile
    /\ new_repo = FreshRepo

\* repo.add_package(pkg_data), before the index is saved
RepoAdd(pkg_data) ==
    /\ ~file.exists
    /\ RepoAddPackage(PackageOf(pkg_data))

\* repo.save_to_file(file_path)
SaveToFile ==
    /\ ~file.exists
    /\ file' = [exists |-> TRUE, records |-> SavedRecords(repo_packages, DOMAIN repo_packages)]
    /\ returned' = Call("save_to_file", << >>, << >>)
    /\ UNCHANGED <<packages, repo_packages, _graph, new_repo>>
    /\ SolverIdle

\* new_repo = PackageRepository(); new_repo.load_from_file(file_path)
LoadFromFile ==
    /\ file.exists
    /\ returned.op = "save_to_file"
    /\ new_repo' = LoadLoop(FreshRepo, file.records)
    /\ returned' = Call("load_from_file", << >>, << >>)
    /\ UNCHANGED <<packages, repo_packages, _graph, file>>
    /\ SolverIdle

\* new_repo.find_packages(name), once the file is loaded
FindPackages(name) ==
    /\ returned.op \in { "load_from_file", "find_packages" }
    /\ returned' = Call("find_packages", <<name>>, find_packages(new_repo.packages, name, Star))
    /\ UNCHANGED <<packages, repo_packages, _graph, file, new_repo>>
    /\ SolverIdle

NextRepo ==
    \/ \E pkg_data \in RepoPool : RepoAdd(pkg_data)
    \/ SaveToFile
    \/ LoadFromFile
    \/ \E name \in RepoNames : FindPackages(name)

SpecRepo == InitRepo /\ [][NextRepo]_vars

(***************************************************************************)
(* _get_var line by line.  The workers of parallel_solve run solve() on    *)
(* the one Solver, so their walks call _get_var on the same tables, and a  *)
(* thread can be switched between any two of its reads and writes.         *)
(***************************************************************************)
\* The worker threads and the number of _get_var calls of each walk
VarThreads == 2
MaxGetVar == 2

\* The packages the walks ask a variable for
VarPkgs == { PackagePool[2], PackagePool[3] }

\* A thread outside _get_var, having made `calls` calls
NoLocal(calls) == [pkg |-> None, var |-> 0, tmp |-> 0, calls |-> calls]

\* dict[key] = value
DictSet(dict, key, value) ==
    [k \in DOMAIN dict \cup {key} |-> IF k = key THEN value ELSE dict[k]]

InitVars ==
    /\ packages = GraphOf({2, 3}, Len(PackagePool))
    /\ SolverInit
    /\ GraphInit
    /\ pc = [t \in 1..VarThreads |-> "idle"]
    /\ local = [t \in 1..VarThreads |-> NoLocal(0)]
    /\ request = [t \in {Main} |-> << >>]
    /\ raised = [t \in {Main} |-> "none"]
    /\ model = [t \in {Main} |-> NoModel]
    /\ history = << >>
    /\ futures = << >>
    /\ results = << >>
    /\ processed = [t \in {Main} |-> << >>]
    /\ file = NoFile
    /\ new_repo = FreshRepo

\* What _get_var leaves alone
VarIdle ==
    UNCHANGED <<packages, repo_packages, _graph, returned, file, new_repo, processed, cnf,
                oracle, request, raised, model, history, futures, results>>

\* Line 42: the walk of thread t calls self._get_var(pkg)
GetVarCall(t, pkg) ==
    /\ pc[t] = "idle"
    /\ local[t].calls < MaxGetVar
    /\ local' = [local EXCEPT ![t] = [NoLocal(local[t].calls + 1) EXCEPT !.pkg = pkg]]
    /\ pc' = [pc EXCEPT ![t] = "line44"]
    /\ UNCHANGED <<pkg_to_var, var_to_pkg, next_var>>
    /\ VarIdle

\* Lines 44-45: `if pkg in self._pkg_to_var: return self._pkg_to_var[pkg]`
GetVarLookup(t) ==
    /\ pc[t] = "line44"
    /\ IF PkgKey(local[t].pkg) \in DOMAIN pkg_to_var
       THEN /\ local' = [local EXCEPT ![t].var = pkg_to_var[PkgKey(local[t].pkg)]]
            /\ pc' = [pc EXCEPT ![t] = "idle"]
       ELSE /\ local' = local
            /\ pc' = [pc EXCEPT ![t] = "line47"]
    /\ UNCHANGED <<pkg_to_var, var_to_pkg, next_var>>
    /\ VarIdle

\* Line 47: `var = self._next_var`
GetVarRead(t) ==
    /\ pc[t] = "line47"
    /\ local' = [local EXCEPT ![t].var = next_var]
    /\ pc' = [pc EXCEPT ![t] = "line48"]
    /\ UNCHANGED <<pkg_to_var, var_to_pkg, next_var>>
    /\ VarIdle

\* Line 48, `self._next_var += 1`: the attribute is loaded ...
GetVarLoad(t) ==
    /\ pc[t] = "line48"
    /\ local' = [local EXCEPT ![t].tmp = next_var]
    /\ pc' = [pc EXCEPT ![t] = "line48store"]
    /\ UNCHANGED <<pkg_to_var, var_to_pkg, next_var>>
    /\ VarIdle

\* ... and the sum is stored.
GetVarStore(t) ==
    /\ pc[t] = "line48store"
    /\ next_var' = local[t].tmp + 1
    /\ pc' = [pc EXCEPT ![t] = "line49"]
    /\ UNCHANGED <<pkg_to_var, var_to_pkg, local>>
    /\ VarIdle

\* Line 49: `self._pkg_to_var[pkg] = var`
GetVarSetPkg(t) ==
    /\ pc[t] = "line49"
    /\ pkg_to_var' = DictSet(pkg_to_var, PkgKey(local[t].pkg), local[t].var)
    /\ pc' = [pc EXCEPT ![t] = "line50"]
    /\ UNCHANGED <<var_to_pkg, next_var, local>>
    /\ VarIdle

\* Lines 50-51: `self._var_to_pkg[var] = pkg; return var`
GetVarSetVar(t) ==
    /\ pc[t] = "line50"
    /\ var_to_pkg' = DictSet(var_to_pkg, local[t].var, local[t].pkg)
    /\ pc' = [pc EXCEPT ![t] = "idle"]
    /\ UNCHANGED <<pkg_to_var, next_var, local>>
    /\ VarIdle

NextVars ==
    \E t \in 1..VarThreads :
        \/ \E pkg \in VarPkgs : GetVarCall(t, pkg)
        \/ GetVarLookup(t)
        \/ GetVarRead(t)
        \/ GetVarLoad(t)
        \/ GetVarStore(t)
        \/ GetVarSetPkg(t)
        \/ GetVarSetVar(t)

SpecVars == InitVars /\ [][NextVars]_vars

(***************************************************************************)
(* What the claims speak of                                                *)
(***************************************************************************)
\* The records of the graph
AllRecords == UNION { { packages[n][i] : i \in DOMAIN packages[n] } : n \in DOMAIN packages }

\* The records of a name that satisfy a constraint
SatisfyingSet(name, constraint) ==
    { q \in AllRecords : q.name = name /\ satisfies_constraint(q, constraint) }

Deps(p) == { p.dependencies[i] : i \in DOMAIN p.dependencies }

\* The records the closure walk reaches from a set of roots: every
\* satisfying candidate of every dependency of a reached record
RECURSIVE WalkClosure(_)
WalkClosure(S) ==
    LET T == S \cup UNION { SatisfyingSet(d[1], d[2]) : d \in UNION { Deps(p) : p \in S } }
    IN  IF T = S THEN S ELSE WalkClosure(T)

\* The requested entries of a request list, and the records they resolve to
Entries(requested_pkgs) == { requested_pkgs[i] : i \in DOMAIN requested_pkgs }

Roots(requested_pkgs) ==
    { q \in AllRecords :
        \E e \in Entries(requested_pkgs) :
            /\ q \in SatisfyingSet(e[1], e[2])
            /\ \A r \in SatisfyingSet(e[1], e[2]) : VersionLe(r.version, q.version) }

HasDeadDependency(p) == \E d \in Deps(p) : SatisfyingSet(d[1], d[2]) = {}

Succeeded(h) == h.result.kind = "ok"

Failed(h) == h.result.kind = "ResolutionError"

\* The solve() call that has just finished
Finished(h) == pc[Main] = "idle" /\ history # << >> /\ h = history[Len(history)]

\* C1: no two packages of a set solve() returned share a name.
C1_MutualExclusion ==
    \A h \in {history[i] : i \in DOMAIN history} : Succeeded(h) =>
        \A p \in h.result.pkgs, q \in h.result.pkgs : p.name = q.name => p = q

\* C2: every dependency of every package of a set solve() returned is
\* satisfied by a package of the set.
C2_Soundness ==
    \A h \in {history[i] : i \in DOMAIN history} : Succeeded(h) =>
        \A p \in h.result.pkgs : \A d \in Deps(p) :
            \E q \in h.result.pkgs : q.name = d[1] /\ satisfies_constraint(q, d[2])

\* C3: when a record the closure walk reaches from the request has a
\* dependency no record of the graph satisfies, solve() fails with a
\* ResolutionError: it returns no package set.
C3_DeadDependencyFails ==
    \A h \in {history[i] : i \in DOMAIN history} : Finished(h) =>
        ((\E p \in WalkClosure(Roots(h.request)) : HasDeadDependency(p)) => Failed(h))

\* C3's case: solve() failed on a dead dependency of a candidate the oracle
\* would not need: no requested record has one, and the dependency the
\* candidate satisfies has another candidate whose closure has none.
C3_Witness ==
    \E h \in {history[i] : i \in DOMAIN history} :
        /\ h.result.reason = "UnsatisfiableDependency"
        /\ Roots(h.request) # {}
        /\ \A p \in Roots(h.request) : ~HasDeadDependency(p)
        /\ \E q \in WalkClosure(Roots(h.request)) : \E d \in Deps(q) :
             \E p \in SatisfyingSet(d[1], d[2]), p2 \in SatisfyingSet(d[1], d[2]) :
                /\ HasDeadDependency(p)
                /\ \A r \in WalkClosure({p2}) : ~HasDeadDependency(r)

\* The records of a name that satisfy a constraint and have the greatest
\* version among them
MaxSatisfying(name, constraint) ==
    { q \in SatisfyingSet(name, constraint) :
        \A r \in SatisfyingSet(name, constraint) : VersionLe(r.version, q.version) }

\* C4: on a graph with one record per name where every dependency of every
\* record reached from the request is satisfiable (and every requested
\* entry resolves), solve() returns exactly the closure of the request.
C4_ClosureReturned ==
    \A h \in {history[i] : i \in DOMAIN history} :
        (   /\ Finished(h)
            /\ \A n \in DOMAIN packages : Len(packages[n]) = 1
            /\ \A e \in Entries(h.request) : SatisfyingSet(e[1], e[2]) # {}
            /\ \A p \in WalkClosure(Roots(h.request)) : ~HasDeadDependency(p)
        ) => h.result = Ok(WalkClosure(Roots(h.request)))

\* C5: a set solve() returned holds, for every requested entry, the
\* greatest-version record of that name satisfying the constraint, and no
\* other record of that name.
C5_RequestedMaximum ==
    \A h \in {history[i] : i \in DOMAIN history} : Finished(h) /\ Succeeded(h) =>
        \A e \in Entries(h.request) :
            /\ \E q \in MaxSatisfying(e[1], e[2]) : q \in h.result.pkgs
            /\ \A q \in h.result.pkgs : q.name = e[1] => q \in MaxSatisfying(e[1], e[2])

\* C5's case: a requested name has two satisfying versions and solve()
\* returned a set with the higher and without the lower.
C5_Witness ==
    \E h \in {history[i] : i \in DOMAIN history} :
        /\ Succeeded(h)
        /\ \E e \in Entries(h.request) :
            \E lo \in SatisfyingSet(e[1], e[2]), hi \in SatisfyingSet(e[1], e[2]) :
                /\ VersionLt(lo.version, hi.version)
                /\ hi \in h.result.pkgs
                /\ lo \notin h.result.pkgs

\* C6: when a requested entry matches no record of the graph, solve()
\* fails with a ResolutionError, whatever the other entries are and
\* wherever the entry stands in the list.
C6_NotFoundFails ==
    \A h \in {history[i] : i \in DOMAIN history} : Finished(h) =>
        ((\E e \in Entries(h.request) : SatisfyingSet(e[1], e[2]) = {}) => Failed(h))

\* C6's case: of a two-entry request the first entry resolves and the
\* second matches no record, and solve() failed with PackageNotFound.
C6_Witness ==
    \E h \in {history[i] : i \in DOMAIN history} :
        /\ Len(h.request) = 2
        /\ SatisfyingSet(h.request[1][1], h.request[1][2]) # {}
        /\ SatisfyingSet(h.request[2][1], h.request[2][2]) = {}
        /\ h.result = ResolutionError("PackageNotFound")

\* C7: the closure walk ends by itself on every graph, cyclic ones too: no
\* solve() ends on the interpreter's recursion limit.
C7_WalkTerminates ==
    \A h \in {history[i] : i \in DOMAIN history} : h.result.reason # "RecursionError"

\* C8: two solve() calls with the same request yield the same package set.
C8_Determinism ==
    \A i \in DOMAIN history, j \in DOMAIN history :
        history[i].request = history[j].request =>
            /\ history[i].result.kind = history[j].result.kind
            /\ history[i].result.pkgs = history[j].result.pkgs

\* C9: a set solve() returned holds the requested records and only
\* records reachable from them by dependency closure.
C9_PrunedToClosure ==
    \A h \in {history[i] : i \in DOMAIN history} : Succeeded(h) =>
        /\ h.result.pkgs \subseteq WalkClosure(Roots(h.request))
        /\ Roots(h.request) \subseteq h.result.pkgs

\* C10: the i-th element of the list parallel_solve returns is the outcome
\* of the i-th request, whatever the order the workers finish in.
C10_InputOrder ==
    pc[Main] = "returned" =>
        /\ Len(results) = Len(futures)
        /\ \A i \in DOMAIN futures : results[i] = Outcome(futures[i])

\* What solve(requested_pkgs) can produce on a new Solver of the graph, run
\* alone: the error of the walk, or no solution, or the set of any model.
AloneOutcomes(requested_pkgs) ==
    LET st == RequestLoop(Encoding(<< >>, << >>, 1, << >>, "none"), requested_pkgs)
    IN  IF st.raised # "none" THEN { ResolutionError(st.raised) }
        ELSE IF Models(st.cnf) = {} THEN { ResolutionError("NoSolution") }
        ELSE { Ok(_prune_solution(_extract_solution(m, st.var_to_pkg))) : m \in Models(st.cnf) }

\* The runs of parallel_solve that have ended
Ended == { i \in DOMAIN futures : futures[i].state \in {"done", "yielded"} }

\* The failures a request can end in by itself
RequestFailures == { "PackageNotFound", "UnsatisfiableDependency", "NoSolution" }

\* C11: in parallel_solve, when a request fails (as it does when solved
\* alone), every sibling request still ends with a result it can have when
\* solved alone, under every interleaving of the runs.
C11_FailureIsolation ==
    \A i \in Ended, j \in Ended :
        (   /\ i # j
            /\ Failed(futures[i])
            /\ futures[i].result.reason \in RequestFailures
            /\ futures[i].result \in AloneOutcomes(request[i])
        ) => futures[j].result \in AloneOutcomes(request[j])

\* C12: every run of parallel_solve has its own variable table, clause
\* list and oracle: under every interleaving the result of a request is one
\* that solving it alone on a new Solver of the graph can give.
C12_RunIsolation ==
    \A i \in Ended : futures[i].result \in AloneOutcomes(request[i])

\* C13: a request that fails inside parallel_solve is reported as an error
\* and never as an empty package set: every empty set of the returned list
\* is the result of a run that returned the empty set.
C13_ErrorsSurface ==
    pc[Main] = "returned" =>
        Cardinality({ k \in DOMAIN results : results[k] = {} })
            = Cardinality({ i \in DOMAIN futures : futures[i].result = Ok({}) })

\* The failures of the closure walk, which come before the oracle is asked
WalkFailures == { "PackageNotFound", "UnsatisfiableDependency", "RecursionError" }

\* C14: when the accumulated clauses are unsatisfiable, solve() fails with
\* a ResolutionError; when they are satisfiable and the walk did not fail,
\* solve() returns a package set.
C14_NoSolution ==
    \A h \in {history[i] : i \in DOMAIN history} : Finished(h) =>
        /\ (Models(cnf) = {} => Failed(h))
        /\ (Models(cnf) # {} /\ h.result.reason \notin WalkFailures => Succeeded(h))


\* C15: get_package returns a record of the name that satisfies the
\* constraint and whose version is >= that of every satisfying record of
\* the name; it returns None exactly when no record of the name satisfies
\* the constraint (the name unknown included); with "*" it returns a
\* record of the highest version of the name.
C15_GetPackage ==
    returned.op = "get_package" =>
        LET name == returned.args[1]
            constraint == returned.args[2]
            pkg == returned.value
        IN  /\ (pkg = None) <=> (SatisfyingSet(name, constraint) = {})
            /\ (pkg = None) <=> (name \notin DOMAIN packages
                                   \/ \A r \in AllRecords :
                                        r.name = name => ~satisfies_constraint(r, constraint))
            /\ pkg # None => pkg \in MaxSatisfying(name, constraint)
            /\ (constraint = Star /\ name \in DOMAIN packages) =>
                    /\ pkg.name = name
                    /\ \A r \in AllRecords : r.name = name => VersionLe(r.version, pkg.version)

\* C15's case: the name has a lower satisfying record added after a higher
\* one and a record that does not satisfy, and get_package returned the
\* higher.
C15_Witness ==
    /\ returned.op = "get_package"
    /\ returned.value # None
    /\ returned.args[1] \in DOMAIN packages
    /\ \E i \in DOMAIN packages[returned.args[1]], j \in DOMAIN packages[returned.args[1]] :
          /\ i < j
          /\ packages[returned.args[1]][i] = returned.value
          /\ satisfies_constraint(packages[returned.args[1]][j], returned.args[2])
          /\ VersionLt(packages[returned.args[1]][j].version, returned.value.version)

\* C16: no two records of the graph share both name and version.
C16_NoDuplicates ==
    \A n \in DOMAIN packages : \A i \in DOMAIN packages[n], j \in DOMAIN packages[n] :
        PackageEq(packages[n][i], packages[n][j]) => i = j

\* What get_package gives for the dependencies of a record, over the
\* records added so far
DerivedDependencies(P) ==
    { get_package(packages, d[1], d[2]) : d \in Deps(P) } \ { None }

\* C17: whatever calls came before, get_dependencies(P) of a record of the
\* graph is what get_package gives for P's dependencies over the records
\* added so far, and get_dependents(Q) is the records that have Q among
\* them.
C17_DerivedEdges ==
    /\ (returned.op = "get_dependencies" /\ returned.args[1] \in AllRecords) =>
            returned.value = Ok(DerivedDependencies(returned.args[1]))
    /\ (returned.op = "get_dependents" /\ returned.args[1] \in AllRecords) =>
            returned.value = Ok({ P \in AllRecords : returned.args[1] \in DerivedDependencies(P) })


\* The order of component sequences: the first differing components
\* decide, a proper prefix is smaller
RECURSIVE SeqLess(_, _)
SeqLess(a, b) ==
    IF b = << >> THEN FALSE
    ELSE IF a = << >> THEN TRUE
    ELSE IF a[1] # b[1] THEN a[1] < b[1]
    ELSE SeqLess(Tail(a), Tail(b))

SeqLeq(a, b) == a = b \/ SeqLess(a, b)

AllZero(V) == \A i \in DOMAIN V : V[i] = 0

\* The first non-zero component incremented, the later ones zeroed
NextBreakingVersion(V) ==
    LET i == CHOOSE i \in DOMAIN V : V[i] # 0 /\ \A j \in 1..(i - 1) : V[j] = 0
    IN  [k \in DOMAIN V |-> IF k < i THEN V[k] ELSE IF k = i THEN V[k] + 1 ELSE 0]

CaretCall == returned.op = "satisfies_constraint" /\ returned.args[2] = <<"^">>

\* C18: for a base V with a non-zero component and a version v of V's
\* length, satisfies_constraint(v, "^V") is true iff
\* V <= v < nextBreakingVersion(V).
C18_CaretRange ==
    (CaretCall /\ ~AllZero(returned.args[3]) /\ Len(returned.args[1]) = Len(returned.args[3])) =>
        (returned.value <=>
            /\ SeqLeq(returned.args[3], returned.args[1])
            /\ SeqLess(returned.args[1], NextBreakingVersion(returned.args[3])))

\* C18's case: the base starts with a zero and has a non-zero component,
\* and a version above it, of its length, was accepted.
C18_Witness ==
    /\ CaretCall
    /\ returned.args[3][1] = 0
    /\ ~AllZero(returned.args[3])
    /\ Len(returned.args[1]) = Len(returned.args[3])
    /\ SeqLess(returned.args[3], returned.args[1])
    /\ returned.value = TRUE

\* C19: for an all-zero base V the caret range has no upper bound:
\* satisfies_constraint(v, "^V") is true for every v >= V.
C19_CaretAllZero ==
    (CaretCall /\ AllZero(returned.args[3]) /\ SeqLeq(returned.args[3], returned.args[1])) =>
        returned.value = TRUE

\* C20: over versions with integer components, of equal or different
\* lengths, < is irreflexive and transitive, exactly one of a < b, a == b,
\* b < a holds, a == b iff the component sequences are equal, and a <= b
\* iff a < b or a == b.
C20_VersionOrdering ==
    returned.op = "compare" =>
        LET lt == returned.value.lt
            le == returned.value.le
            eq == returned.value.eq
            a == returned.args
        IN  /\ \A i \in 1..3 : ~lt[i][i]
            /\ (lt[1][2] /\ lt[2][3]) => lt[1][3]
            /\ \A i \in 1..3, j \in 1..3 :
                  /\ lt[i][j] \/ eq[i][j] \/ lt[j][i]
                  /\ ~(lt[i][j] /\ eq[i][j])
                  /\ ~(lt[i][j] /\ lt[j][i])
                  /\ eq[i][j] <=> (a[i] = a[j])
                  /\ le[i][j] <=> (lt[i][j] \/ eq[i][j])

\* C20's case: three versions a < b < c were compared, a a proper prefix
\* of b, and b and c differing in the last component.
C20_Witness ==
    /\ returned.op = "compare"
    /\ returned.value.lt[1][2]
    /\ returned.value.lt[2][3]
    /\ Len(returned.args[1]) < Len(returned.args[2])
    /\ SubSeq(returned.args[2], 1, Len(returned.args[1])) = returned.args[1]
    /\ Len(returned.args[2]) = Len(returned.args[3])


\* C21: satisfies_constraint(v, "==V") and satisfies_constraint(v, "V")
\* are true iff Version(V) and v have the same components, whatever the
\* strings v and V were written as; so a record satisfies "==" followed by
\* the string it was created from.
C21_ExactMatch ==
    returned.op = "exact_match" => (returned.value <=> (returned.args[1] = returned.args[4]))


\* The (name, version, dependencies, description) tuples of a repository
Tuples(pkgs) ==
    { <<r.name, r.version, Deps(r), r.description>> : r \in RecordSet(pkgs) }

C23_GraphReadOnly == [][packages' = packages]_vars

\* C23's case: on a graph with records, a solve() that succeeded and one
\* that failed on a name the graph does not hold have both ended.
C23_Witness ==
    /\ AllRecords # {}
    /\ Len(history) = 2
    /\ history[1].result.kind = "ok"
    /\ history[2].result.kind # "ok"
    /\ \E i \in DOMAIN history[2].request : history[2].request[i][1] \notin DOMAIN packages
    /\ pc[Main] = "idle"


\* The package a walk processed under a (name, version) key
Processed(t) == { var_to_pkg[pkg_to_var[processed[t][i]]] : i \in DOMAIN processed[t] }

\* The positions of cnf that hold the implication clause of p's dependency
\* dep: -var(p), then the variables of the satisfying records
ImplicationClauses(p, dep) ==
    LET cands == { pkg_to_var[PkgKey(c)] : c \in SatisfyingSet(dep[1], dep[2]) }
    IN  { i \in DOMAIN cnf :
            /\ Len(cnf[i]) = 1 + Cardinality(cands)
            /\ cnf[i][1] = -pkg_to_var[PkgKey(p)]
            /\ { cnf[i][k] : k \in 2..Len(cnf[i]) } = cands }

\* The exclusion clauses of p are in cnf, and every candidate of every
\* dependency of p was processed
ExclusionsAndCandidates(t, p) ==
    /\ \A q \in AllRecords :
          (q.name = p.name /\ ~PackageEq(q, p)) =>
              /\ PkgKey(q) \in DOMAIN pkg_to_var
              /\ \E i \in DOMAIN cnf : cnf[i] = <<-pkg_to_var[PkgKey(p)], -pkg_to_var[PkgKey(q)]>>
    /\ \A dep \in Deps(p) : \A c \in SatisfyingSet(dep[1], dep[2]) :
          /\ PkgKey(c) \in DOMAIN pkg_to_var
          /\ \E i \in DOMAIN processed[t] : processed[t][i] = PkgKey(c)

\* C24: when a walk has ended without an error, for every package p it
\* processed the clauses hold [-var(p), -var(q)] for every other record q
\* of p's name and, for every dependency of p, exactly one clause of
\* -var(p) and the variables of all satisfying records, each of which was
\* processed.
C24_ClauseEncoding ==
    pc[Main] = "oracle" =>
        \A p \in Processed(Main) :
            /\ ExclusionsAndCandidates(Main, p)
            /\ \A dep \in Deps(p) : Cardinality(ImplicationClauses(p, dep)) = 1

\* C25: when a run calls the oracle's solve(), the oracle has been given
\* every clause the walk accumulated.
C25_OracleProtocol ==
    [][(pc[Main] = "oracle" /\ pc'[Main] # "oracle") =>
          \A i \in DOMAIN cnf : \E j \in DOMAIN oracle'.clauses : oracle'.clauses[j] = cnf[i]]_vars

\* The variable table and the clauses of a walk of requested_pkgs that
\* starts from empty tables
FreshEncoding(requested_pkgs) ==
    RequestLoop(Encoding(<< >>, << >>, 1, << >>, "none"), requested_pkgs)

\* C26: the clauses and the variable table a run hands to the oracle are
\* those of a walk of its own request from empty tables.
C26_FreshCNF ==
    pc[Main] = "oracle" =>
        /\ cnf = FreshEncoding(request[Main]).cnf
        /\ pkg_to_var = FreshEncoding(request[Main]).pkg_to_var
        /\ var_to_pkg = FreshEncoding(request[Main]).var_to_pkg


\* The lines inside _get_var
GetVarLines == { "line44", "line47", "line48", "line48store", "line49", "line50" }

\* C27: whenever no thread is inside _get_var, the two tables are inverse
\* to each other, so no two packages share an id, and every id is positive
\* and smaller than the next-id counter.
C27_VariableIds ==
    (\A t \in DOMAIN pc : pc[t] \notin GetVarLines) =>
        /\ \A k \in DOMAIN pkg_to_var :
              /\ pkg_to_var[k] \in DOMAIN var_to_pkg
              /\ PkgKey(var_to_pkg[pkg_to_var[k]]) = k
              /\ pkg_to_var[k] >= 1
              /\ pkg_to_var[k] < next_var
        /\ \A v \in DOMAIN var_to_pkg :
              /\ PkgKey(var_to_pkg[v]) \in DOMAIN pkg_to_var
              /\ pkg_to_var[PkgKey(var_to_pkg[v])] = v

\* C28: the walk of one solve() run processes each (name, version) package
\* at most once.
C28_ProcessedOnce ==
    \A i, j \in DOMAIN processed[Main] :
        i # j => processed[Main][i] # processed[Main][j]

\* The positions of cnf that hold an implication clause: a negative literal
\* and then positive ones
Implications ==
    { i \in DOMAIN cnf :
        /\ Len(cnf[i]) >= 2
        /\ cnf[i][1] < 0
        /\ \A k \in 2..Len(cnf[i]) : cnf[i][k] > 0 }

\* C29: in every implication clause the candidates after -var(p) are in
\* descending order of their versions.
C29_CandidateOrder ==
    \A i \in Implications : \A k \in 2..(Len(cnf[i]) - 1) :
        VersionLt(var_to_pkg[cnf[i][k + 1]].version, var_to_pkg[cnf[i][k]].version)

\* C30: the oracle is not used after it was released: when a run gives it
\* the clauses and calls its solve(), it is alive.
C30_OracleRelease ==
    [][(pc[Main] = "oracle" /\ pc'[Main] # "oracle") => oracle.alive]_vars


====
